---- MODULE Spec2Model ----
(***************************************************************************)
(* dzunni::RandomWeightedObjectGenerator<E> (src/rwog.hpp) as a state      *)
(* machine.  One action per public member function; the value each call    *)
(* returns is kept in ret.                                                  *)
(*                                                                         *)
(* unsigned int is 32 bits wide.  TLC's integers stop at 2^31 - 1, so a    *)
(* uint is the pair <<high half, low half>> of its 16-bit halves and the   *)
(* arithmetic below is exact arithmetic modulo 2^32.                       *)
(***************************************************************************)
EXTENDS Integers, Sequences, FiniteSets, TLC

(* ------------------------------ bounds --------------------------------- *)
\* element values the calls are made with: 1..NumElements
NumElements == 2
\* seeds the constructor and seed() are called with: 1..NumSeeds
NumSeeds == 1
\* largest amount passed to sample()
MaxSample == 2
\* calls made on the container in one run
MaxCalls == 4
MaxTaken == 2

(* ------------------------- unsigned int (uint) ------------------------- *)
Half == 65536

\* the uint with value n, for 0 <= n < 2^31
U32(n) == <<n \div Half, n % Half>>

\* numeric_limits<unsigned int>::max() = 2^32 - 1
UINT_MAX == <<Half - 1, Half - 1>>

\* a + b in unsigned int
Add32(a, b) ==
    LET lo == a[2] + b[2]
        hi == a[1] + b[1] + (lo \div Half)
    IN  <<hi % Half, lo % Half>>

\* a - b in unsigned int
Sub32(a, b) ==
    LET lo == a[2] - b[2]
        borrow == IF lo < 0 THEN 1 ELSE 0
        hi == a[1] - b[1] - borrow
    IN  <<hi % Half, lo % Half>>

\* a < b, a <= b on unsigned int
Lt32(a, b) == a[1] < b[1] \/ (a[1] = b[1] /\ a[2] < b[2])
Leq32(a, b) == a = b \/ Lt32(a, b)

(* ------------------------------ inputs --------------------------------- *)
Elements == 1..NumElements
Seeds == 1..NumSeeds
\* weights the calls are made with: sums of these stay far below 2^32
Weights == {U32(0), U32(1), U32(2)}
\* the same with the largest unsigned int added
WideWeights == Weights \cup {UINT_MAX}
\* what an E read out of an empty optional can hold: any element value, or
\* a value (0) that was never inserted
AnyE == 0..NumElements

(* ------------------------------- state --------------------------------- *)
VARIABLES
    _rng,           \* mt19937: the seed it was given and the values taken since
    _dis,           \* uniform_int_distribution<uint>: <<a, b>>
    _total_weight,  \* uint
    _data_set,      \* set<Data>, ordered by element
    ret,            \* the last call and what it returned
    assigned,       \* per element, the weight its last successful insert/modify gave
    calls,          \* calls made so far
    before          \* totalWeight() and size() as they were before the last call

vars == <<_rng, _dis, _total_weight, _data_set, ret, assigned, calls, before>>

\* optional<T>: <<>> is nullopt, <<v>> holds v
nullopt == <<>>
Some(v) == <<v>>

\* struct Data
Data(e, lower_boundary, upper_boundary) ==
    [element |-> e, lower_boundary |-> lower_boundary, upper_boundary |-> upper_boundary]

\* Data::weight()
DataWeight(d) == Add32(Sub32(d.upper_boundary, d.lower_boundary), U32(1))

\* find() under an operator< that orders records by their boundaries as well:
\* only a record equal to Data(e, 0, 0) is equivalent to the key
findComparesBoundaries(S, e) ==
    {d \in S : d.element = e /\ d.lower_boundary = U32(0) /\ d.upper_boundary = U32(0)}

\* _data_set.find(element): the set of records equivalent to element
\* (empty when find returns end())
find(S, e) == {d \in S : d.element = e}

\* set<Data>::insert: a record equivalent to a stored one is not inserted
SetInsert(S, d) == IF find(S, d.element) = {} THEN S \cup {d} ELSE S

\* the first record of the set in iteration order (Data::operator<)
First(S) == CHOOSE d \in S : \A o \in S : d.element <= o.element

contains(S, e) == find(S, e) # {}

size(S) == Cardinality(S)

empty(S) == S = {}

\* weight() answering 0 for an element that is not stored
weightOrZero(S, e) ==
    IF find(S, e) = {} THEN Some(U32(0))
    ELSE Some(DataWeight(CHOOSE d \in find(S, e) : TRUE))

\* weight(element)
weight(S, e) ==
    IF find(S, e) = {} THEN nullopt
    ELSE Some(DataWeight(CHOOSE d \in find(S, e) : TRUE))

\* A double is kept as the operation that made it: num / den is "finite" when
\* den is not zero; with den zero the division yields "inf" for a non-zero
\* num and "nan" for 0.0 / 0.0.
Quotient(num, den) ==
    [class |-> IF den # U32(0) THEN "finite" ELSE IF num # U32(0) THEN "inf" ELSE "nan",
     num |-> num, den |-> den]

\* probability(element): (double) it->weight() / _total_weight
probability(S, total_weight, e) ==
    IF find(S, e) = {} THEN nullopt
    ELSE Some(Quotient(DataWeight(CHOOSE d \in find(S, e) : TRUE), total_weight))

\* the loop of operator(): the first record, in set order, whose range holds random
RECURSIVE Scan(_, _)
Scan(S, random) ==
    IF S = {} THEN nullopt
    ELSE LET data == First(S)
         IN  IF Leq32(data.lower_boundary, random) /\ Leq32(random, data.upper_boundary)
             THEN Some(data.element)
             ELSE Scan(S \ {data}, random)

\* 2^k for k < 16
Pow16 == {1, 2, 4, 8, 16, 32, 64, 128, 256, 512, 1024, 2048, 4096, 8192, 16384, 32768}

IsPowerOfTwo(x) ==
    \/ x[1] = 0 /\ x[2] \in Pow16
    \/ x[2] = 0 /\ x[1] \in Pow16

\* How many values one _dis(_rng) can take from the generator.  Over the whole
\* range of the generator the distribution returns the first value; over a
\* smaller range it scales a value down and takes another one whenever the
\* value falls in the part that would bias the result, which is empty exactly
\* when the size of the range is a power of two.
Taken(dis) ==
    LET urange == Sub32(dis[2], dis[1])
    IN  IF urange = UINT_MAX \/ IsPowerOfTwo(Add32(urange, U32(1)))
        THEN {1}
        ELSE 1..MaxTaken

\* The values _dis(_rng) can yield are all of [a, b].  The loop of operator()
\* only compares the value with the stored boundaries, so every value of
\* [a, b] behaves as one of: a, b, a stored lower boundary, a stored upper
\* boundary, or the value right after a stored upper boundary.
DisValues(dis, S) ==
    LET cand == {dis[1], dis[2]} \cup
                UNION {{d.lower_boundary, d.upper_boundary,
                        Add32(d.upper_boundary, U32(1))} : d \in S}
    IN  {r \in cand : Leq32(dis[1], r) /\ Leq32(r, dis[2])}

\* ret: the member called (op; "abort" when the process aborted inside the
\* call, which then is the last), its arguments (element, weight, amount; 0
\* where the member has none), the value _dis(_rng) yielded (random; 0 when
\* the call drew none) and the value returned (value; <<>> for void)
Call(op, e, w, amount, random, value) ==
    [op |-> op, element |-> e, weight |-> w, amount |-> amount,
     random |-> random, value |-> value]

NoCall == Call("new", 0, U32(0), 0, U32(0), <<>>)

(* ---------------------------- construction ----------------------------- *)
Init ==
    /\ \E seed \in Seeds : _rng = [seed |-> seed, used |-> 0]
    /\ _dis = <<U32(0), UINT_MAX>>
    /\ _total_weight = U32(0)
    /\ _data_set = {}
    /\ ret = NoCall
    /\ assigned = [e \in Elements |-> nullopt]
    /\ calls = 0
    /\ before = [total_weight |-> U32(0), size |-> 0]

\* mt19937::default_seed, the seed of a generator constructed without one
default_seed == 5489

(* ------------------------------ members -------------------------------- *)
\* one more call, while the process lives and the run has calls left
Tick ==
    /\ ret.op # "abort"
    /\ calls < MaxCalls
    /\ calls' = calls + 1
    /\ before' = [total_weight |-> _total_weight, size |-> size(_data_set)]

\* The copy constructor, seen from the copy: it takes the records and the
\* total, and its generator and distribution are default-constructed.
copyConstruct ==
    /\ Tick
    /\ _rng' = [seed |-> default_seed, used |-> 0]
    /\ _dis' = <<U32(0), UINT_MAX>>
    /\ ret' = Call("copy", 0, U32(0), 0, U32(0), <<>>)
    /\ UNCHANGED <<_total_weight, _data_set, assigned>>

\* The move constructor, seen from the container moved from: its set is
\* moved out and left empty, the other members are copied and stay.  (The
\* new container is in the state this one was in.)
moveConstruct ==
    /\ Tick
    /\ _data_set' = {}
    /\ ret' = Call("move", 0, U32(0), 0, U32(0), <<>>)
    /\ assigned' = [e \in Elements |-> nullopt]
    /\ UNCHANGED <<_rng, _dis, _total_weight>>

\* seed() that also puts the distribution back to the one of a new container
seedResetsDistribution(s) ==
    /\ Tick
    /\ _rng' = [seed |-> s, used |-> 0]
    /\ _dis' = <<U32(0), UINT_MAX>>
    /\ ret' = Call("seed", 0, U32(0), 0, U32(0), <<>>)
    /\ UNCHANGED <<_total_weight, _data_set, assigned>>

seed(s) ==
    /\ Tick
    /\ _rng' = [seed |-> s, used |-> 0]
    /\ ret' = Call("seed", 0, U32(0), 0, U32(0), <<>>)
    /\ UNCHANGED <<_dis, _total_weight, _data_set, assigned>>

update ==
    /\ Tick
    /\ _dis' = IF _total_weight # U32(0) THEN <<U32(1), _total_weight>> ELSE _dis
    /\ ret' = Call("update", 0, U32(0), 0, U32(0), <<>>)
    /\ UNCHANGED <<_rng, _total_weight, _data_set, assigned>>

\* insert() without its early return: a duplicate still moves the total
insertNoEarlyReturn(element, w) ==
    /\ Tick
    /\ LET lower_boundary == Add32(_total_weight, U32(1))
           upper_boundary == Add32(_total_weight, w)
       IN  /\ _total_weight' = upper_boundary
           /\ _data_set' = SetInsert(_data_set, Data(element, lower_boundary, upper_boundary))
           /\ ret' = Call("insert", element, w, 0, U32(0), <<TRUE>>)
           /\ assigned' = [assigned EXCEPT ![element] = Some(w)]
           /\ UNCHANGED <<_rng, _dis>>

insert(element, w) ==
    /\ Tick
    /\ IF contains(_data_set, element)
       THEN /\ ret' = Call("insert", element, w, 0, U32(0), <<FALSE>>)
            /\ UNCHANGED <<_rng, _dis, _total_weight, _data_set, assigned>>
       ELSE LET lower_boundary == Add32(_total_weight, U32(1))
                upper_boundary == Add32(_total_weight, w)
            IN  /\ _total_weight' = upper_boundary
                /\ _data_set' = SetInsert(_data_set, Data(element, lower_boundary, upper_boundary))
                /\ ret' = Call("insert", element, w, 0, U32(0), <<TRUE>>)
                /\ assigned' = [assigned EXCEPT ![element] = Some(w)]
                /\ UNCHANGED <<_rng, _dis>>

\* erase() that forgets to take the weight off the total
eraseKeepsTotal(element) ==
    /\ Tick
    /\ LET it == find(_data_set, element)
       IN  IF it # {}
           THEN LET d == CHOOSE x \in it : TRUE
                    w == DataWeight(d)
                IN  /\ _data_set' = _data_set \ {d}
                    /\ ret' = Call("erase", element, U32(0), 0, U32(0), Some(w))
                    /\ assigned' = [assigned EXCEPT ![element] = nullopt]
                    /\ UNCHANGED <<_rng, _dis, _total_weight>>
           ELSE /\ ret' = Call("erase", element, U32(0), 0, U32(0), nullopt)
                /\ UNCHANGED <<_rng, _dis, _total_weight, _data_set, assigned>>

erase(element) ==
    /\ Tick
    /\ LET it == find(_data_set, element)
       IN  IF it # {}
           THEN LET d == CHOOSE x \in it : TRUE
                    w == DataWeight(d)
                IN  /\ _total_weight' = Sub32(_total_weight, w)
                    /\ _data_set' = _data_set \ {d}
                    /\ ret' = Call("erase", element, U32(0), 0, U32(0), Some(w))
                    /\ assigned' = [assigned EXCEPT ![element] = nullopt]
                    /\ UNCHANGED <<_rng, _dis>>
           ELSE /\ ret' = Call("erase", element, U32(0), 0, U32(0), nullopt)
                /\ UNCHANGED <<_rng, _dis, _total_weight, _data_set, assigned>>

\* clear() that empties the set and forgets the total
clearKeepsTotal ==
    /\ Tick
    /\ _data_set' = {}
    /\ ret' = Call("clear", 0, U32(0), 0, U32(0), <<>>)
    /\ assigned' = [e \in Elements |-> nullopt]
    /\ UNCHANGED <<_rng, _dis, _total_weight>>

clear ==
    /\ Tick
    /\ _data_set' = {}
    /\ _total_weight' = U32(0)
    /\ ret' = Call("clear", 0, U32(0), 0, U32(0), <<>>)
    /\ assigned' = [e \in Elements |-> nullopt]
    /\ UNCHANGED <<_rng, _dis>>

modify(element, w) ==
    /\ Tick
    /\ LET it == find(_data_set, element)
       IN  IF it # {}
           THEN LET prev_weight == DataWeight(CHOOSE x \in it : TRUE)
                IN  /\ _total_weight' = Add32(Sub32(_total_weight, prev_weight), w)
                    /\ ret' = Call("modify", element, w, 0, U32(0), Some(prev_weight))
                    /\ assigned' = [assigned EXCEPT ![element] = Some(w)]
                    /\ UNCHANGED <<_rng, _dis, _data_set>>
           ELSE /\ ret' = Call("modify", element, w, 0, U32(0), nullopt)
                /\ UNCHANGED <<_rng, _dis, _total_weight, _data_set, assigned>>

\* a call of weight(element)
callWeight(element) ==
    /\ Tick
    /\ ret' = Call("weight", element, U32(0), 0, U32(0), weight(_data_set, element))
    /\ UNCHANGED <<_rng, _dis, _total_weight, _data_set, assigned>>

\* a call of probability(element)
callProbability(element) ==
    /\ Tick
    /\ ret' = Call("probability", element, U32(0), 0, U32(0),
                   probability(_data_set, _total_weight, element))
    /\ UNCHANGED <<_rng, _dis, _total_weight, _data_set, assigned>>

\* the dereference did not return: the process aborted
Abort == -1

\* what *(this->operator()()) can do: evaluate to the element held, or, when
\* the optional is empty, evaluate to whatever its storage holds or abort the
\* process
Deref(opt) == IF opt = nullopt THEN AnyE \cup {Abort} ELSE {opt[1]}

\* operator()(): one value from _dis(_rng), then the scan
draw ==
    /\ Tick
    /\ \E random \in DisValues(_dis, _data_set), n \in Taken(_dis) :
         /\ _rng' = [_rng EXCEPT !.used = @ + n]
         /\ ret' = Call("draw", 0, U32(0), 0, random, Scan(_data_set, random))
    /\ UNCHANGED <<_dis, _total_weight, _data_set, assigned>>

\* amount copies of e
Repeat(e, amount) == [i \in 1..amount |-> e]

sample(amount) ==
    /\ Tick
    /\ IF _total_weight # U32(0)
       THEN /\ \E random \in DisValues(_dis, _data_set), n \in Taken(_dis) :
                 \E e \in Deref(Scan(_data_set, random)) :
                   /\ _rng' = [_rng EXCEPT !.used = @ + n]
                   /\ ret' = IF e = Abort
                             THEN Call("abort", 0, U32(0), amount, random, <<>>)
                             ELSE Call("sample", 0, U32(0), amount, random,
                                       Repeat(e, amount))
            /\ UNCHANGED <<_dis, _total_weight, _data_set, assigned>>
       ELSE /\ ret' = Call("sample", 0, U32(0), amount, U32(0), <<>>)
            /\ UNCHANGED <<_rng, _dis, _total_weight, _data_set, assigned>>

Next ==
    \/ \E s \in Seeds : seed(s)
    \/ update
    \/ \E e \in Elements, w \in Weights : insert(e, w)
    \/ \E e \in Elements : erase(e)
    \/ clear
    \/ \E e \in Elements, w \in Weights : modify(e, w)
    \/ copyConstruct
    \/ moveConstruct
    \/ \E e \in Elements : callWeight(e)
    \/ \E e \in Elements : callProbability(e)
    \/ draw
    \/ \E n \in 0..MaxSample : sample(n)

Spec == Init /\ [][Next]_vars

\* the same calls, with weights up to the largest unsigned int
NextWide ==
    \/ \E s \in Seeds : seed(s)
    \/ update
    \/ \E e \in Elements, w \in WideWeights : insert(e, w)
    \/ \E e \in Elements : erase(e)
    \/ clear
    \/ \E e \in Elements, w \in WideWeights : modify(e, w)
    \/ copyConstruct
    \/ moveConstruct
    \/ \E e \in Elements : callWeight(e)
    \/ \E e \in Elements : callProbability(e)
    \/ draw
    \/ \E n \in 0..MaxSample : sample(n)

SpecWide == Init /\ [][NextWide]_vars

\* runs of seed, update, insert, erase, clear, operator() and sample alone
NextNoModify ==
    \/ \E s \in Seeds : seed(s)
    \/ update
    \/ \E e \in Elements, w \in Weights : insert(e, w)
    \/ \E e \in Elements : erase(e)
    \/ clear
    \/ draw
    \/ \E n \in 0..MaxSample : sample(n)

SpecNoModify == Init /\ [][NextNoModify]_vars

\* the same runs, with weights up to the largest unsigned int
NextNoModifyWide ==
    \/ \E s \in Seeds : seed(s)
    \/ update
    \/ \E e \in Elements, w \in WideWeights : insert(e, w)
    \/ \E e \in Elements : erase(e)
    \/ clear
    \/ draw
    \/ \E n \in 0..MaxSample : sample(n)

SpecNoModifyWide == Init /\ [][NextNoModifyWide]_vars

(* ------------------------- measuring the draws ------------------------- *)
\* sum of weight(e) over the stored elements, in unsigned int
RECURSIVE SumWeights(_)
SumWeights(S) ==
    IF S = {} THEN U32(0)
    ELSE LET d == CHOOSE x \in S : TRUE
         IN  Add32(DataWeight(d), SumWeights(S \ {d}))

\* The values of [1, T] at which the answer of the scan can change: 1, the
\* stored lower boundaries and the values right after the stored upper
\* boundaries.  Between two of them the scan returns the same element.
Breaks(S, T) ==
    LET cand == {U32(1)} \cup
                UNION {{d.lower_boundary, Add32(d.upper_boundary, U32(1))} : d \in S}
    IN  {r \in cand : Leq32(U32(1), r) /\ Leq32(r, T)}

\* one past the last value of the stretch of [1, T] that starts at break b
StretchEnd(S, T, b) ==
    LET later == {c \in Breaks(S, T) : Lt32(b, c)}
    IN  IF later = {} THEN Add32(T, U32(1))
        ELSE CHOOSE c \in later : \A o \in later : Leq32(c, o)

RECURSIVE StretchSum(_, _, _)
StretchSum(S, T, B) ==
    IF B = {} THEN U32(0)
    ELSE LET b == CHOOSE x \in B : TRUE
         IN  Add32(Sub32(StretchEnd(S, T, b), b), StretchSum(S, T, B \ {b}))

\* the number of integers r of [1, T] for which the scan returns e
DrawCount(S, T, e) ==
    StretchSum(S, T, {b \in Breaks(S, T) : Scan(S, b) = Some(e)})

\* the records whose range holds r
Holders(S, r) ==
    {d \in S : Leq32(d.lower_boundary, r) /\ Leq32(r, d.upper_boundary)}

\* the records whose range holds at least one value
NonEmptyRanges(S) == {d \in S : DataWeight(d) # U32(0)}

\* the records can be put in an order in which the first range starts at
\* next, each range starts right after the one before, and the last ends at T
RECURSIVE Chained(_, _, _)
Chained(S, next, T) ==
    IF S = {} THEN next = Add32(T, U32(1))
    ELSE \E d \in S : /\ d.lower_boundary = next
                      /\ Chained(S \ {d}, Add32(d.upper_boundary, U32(1)), T)

\* the cached distribution is the one update() would build now
Refreshed == _total_weight # U32(0) /\ _dis = <<U32(1), _total_weight>>

(* ------------------------------- claims -------------------------------- *)

\* C1: after update() with totalWeight() > 0, for every stored element e the
\* number of integers r in [1, totalWeight()] for which operator() returns e
\* equals weight(e).
C1_ProbabilityLaw ==
    (ret.op = "update" /\ _total_weight # U32(0)) =>
        \A d \in _data_set :
            DrawCount(_data_set, _total_weight, d.element) = DataWeight(d)

\* C2: totalWeight() equals the sum of weight(e) over all stored elements e,
\* and is 0 whenever the container is empty.
C2_WeightConservation ==
    /\ _total_weight = SumWeights(_data_set)
    /\ empty(_data_set) => _total_weight = U32(0)

\* C3: the stored ranges are contiguous starting at 1 and end at
\* totalWeight(), and every r in [1, totalWeight()] lies in the range of
\* exactly one stored element, so the scan never returns nullopt there.
\* (Ranges of width 0 hold no value; only the others are asked to be contiguous.)
C3_RangesPartition ==
    /\ Chained(NonEmptyRanges(_data_set), U32(1), _total_weight)
    /\ \A r \in Breaks(_data_set, _total_weight) :
         /\ Cardinality(Holders(_data_set, r)) = 1
         /\ Scan(_data_set, r) # nullopt

\* C4: for a stored element e with weight w1, modify(e, w2) changes
\* totalWeight() by exactly w2 - w1 and afterwards weight(e) returns w2.
C4_ModifyCorrect ==
    [][(ret'.op = "modify" /\ contains(_data_set, ret'.element)) =>
         LET e == ret'.element
             w1 == weight(_data_set, e)[1]
             w2 == ret'.weight
         IN  /\ _total_weight' = Add32(Sub32(_total_weight, w1), w2)
             /\ weight(_data_set', e) = Some(w2)]_vars

\* C5: modify(e, w) and erase(e) on a stored element return the weight given
\* by the most recent successful insert(e, .) or modify(e, .).
C5_ReturnsPriorWeight ==
    [][(ret'.op \in {"modify", "erase"} /\ contains(_data_set, ret'.element)) =>
         ret'.value = assigned[ret'.element]]_vars

\* C6: sample(count) with totalWeight() > 0 consumes count values from the
\* generator, one for each element of the result.
C6_SampleIndependentDraws ==
    [][(ret'.op = "sample" /\ _total_weight # U32(0)) =>
         /\ Len(ret'.value) = ret'.amount
         /\ _rng'.used = _rng.used + ret'.amount]_vars

\* what the code does instead: every element of a sample is the outcome of
\* one and the same draw
SampleRepeatsOneDraw ==
    ret.op = "sample" => \A i, j \in 1..Len(ret.value) : ret.value[i] = ret.value[j]

\* C7: when the container is empty or totalWeight() == 0, operator() returns
\* nullopt and sample(n) returns an empty sequence.  (Stated for containers
\* whose distribution update() has set: there every value the draw can use is
\* one the ranges were laid out for.)
C7_EmptyDomain ==
    ((empty(_data_set) \/ _total_weight = U32(0)) /\ _dis # <<U32(0), UINT_MAX>>) =>
        /\ ret.op = "draw" => ret.value = nullopt
        /\ ret.op = "sample" => ret.value = <<>>

\* C8: an element inserted with weight 0 is never returned by operator(),
\* whatever value the refreshed distribution yields and whatever insert, erase,
\* clear and update calls precede the draw, while contains() reports it
\* present and size() counts it.
C8_ZeroWeightExclusion ==
    \A e \in Elements :
        assigned[e] = Some(U32(0)) =>
            /\ contains(_data_set, e)
            /\ size(_data_set) = size(_data_set \ find(_data_set, e)) + 1
            /\ Refreshed => \A r \in DisValues(_dis, _data_set) :
                                Scan(_data_set, r) # Some(e)

\* C9: an element whose weight is currently zero, also when modify(e, 0) set
\* it to zero, is never picked by operator(), whatever value the refreshed
\* distribution yields.
C9_ZeroWeightNeverPicked ==
    \A e \in Elements :
        ( /\ contains(_data_set, e)
          /\ assigned[e] = Some(U32(0)) \/ weight(_data_set, e) = Some(U32(0))
          /\ Refreshed ) =>
            \A r \in DisValues(_dis, _data_set) : Scan(_data_set, r) # Some(e)

\* C10: insert(e, w) when e is already stored returns false and leaves the
\* element set, every weight and range, totalWeight(), the generator state
\* and the cached distribution unchanged.
C10_DuplicateInsert ==
    [][(ret'.op = "insert" /\ contains(_data_set, ret'.element)) =>
         /\ ret'.value = <<FALSE>>
         /\ UNCHANGED <<_data_set, _total_weight, _rng, _dis>>]_vars

\* a duplicate insert was refused on a container that holds weight
C10_Witness ==
    /\ ret.op = "insert"
    /\ ret.value = <<FALSE>>
    /\ _total_weight # U32(0)

\* C11: erase(e), modify(e, w), weight(e) and probability(e) called with an
\* element that is not stored return nullopt and leave the element set, the
\* ranges and totalWeight() unchanged.
C11_AbsentElement ==
    [][(/\ ret'.op \in {"erase", "modify", "weight", "probability"}
        /\ ~contains(_data_set, ret'.element)) =>
         /\ ret'.value = nullopt
         /\ UNCHANGED <<_data_set, _total_weight>>]_vars

\* modify() of an element that is not stored, on a container that holds
\* another element with weight
C11_Witness ==
    /\ ret.op = "modify"
    /\ ret.value = nullopt
    /\ ~contains(_data_set, ret.element)
    /\ _total_weight # U32(0)

\* C12: probability(e) returns a value exactly when e is stored and
\* totalWeight() > 0; when totalWeight() == 0 it returns nullopt, also for a
\* stored e.
C12_ProbabilityNeedsTotal ==
    ret.op = "probability" =>
        (ret.value # nullopt <=>
            (contains(_data_set, ret.element) /\ _total_weight # U32(0)))

\* C13: when e is not stored, insert(e, w) immediately followed by erase(e)
\* brings totalWeight() and size() back to what they were before the insert,
\* and the erase returns w.
C13_InsertEraseRoundTrip ==
    [][(/\ ret.op = "insert"
        /\ ret.value = <<TRUE>>
        /\ ret'.op = "erase"
        /\ ret'.element = ret.element) =>
         /\ ret'.value = Some(ret.weight)
         /\ _total_weight' = before.total_weight
         /\ size(_data_set') = before.size]_vars

\* three calls were made and the last, an erase, returned 2 and left one
\* record with the range [1, 1]: the calls were insert(a, 1); insert(b, 2);
\* erase(b)
C13_Witness ==
    /\ calls = 3
    /\ ret.op = "erase"
    /\ ret.value = Some(U32(2))
    /\ \E d \in _data_set :
         _data_set = {d} /\ d.lower_boundary = U32(1) /\ d.upper_boundary = U32(1)

\* C14: after clear() size() is 0, totalWeight() is 0 and contains(e) is
\* false for every e; a clear() that follows a clear() changes nothing.
C14_ClearIdempotent ==
    [][ret'.op = "clear" =>
         /\ size(_data_set') = 0
         /\ _total_weight' = U32(0)
         /\ \A e \in Elements : ~contains(_data_set', e)
         /\ ret.op = "clear" =>
                UNCHANGED <<_rng, _dis, _total_weight, _data_set>>]_vars

\* clear() emptied a container that held two elements and weight
C14_Witness ==
    /\ ret.op = "clear"
    /\ before.size = 2
    /\ before.total_weight # U32(0)
    /\ _data_set = {}

\* C16: seed(s) replaces the generator state and nothing else: the element
\* set, the weights and ranges, totalWeight() and the cached distribution
\* stay as they were.
C16_SeedOnlyGenerator ==
    [][ret'.op = "seed" =>
         /\ _rng'.used = 0
         /\ _rng'.seed \in Seeds
         /\ UNCHANGED <<_data_set, _total_weight, _dis>>]_vars

\* a container holding weight, with the distribution update() built, was
\* given a new seed
C16_Witness ==
    /\ ret.op = "seed"
    /\ _rng.used = 0
    /\ _total_weight # U32(0)
    /\ _dis = <<U32(1), _total_weight>>

\* C17: no two stored records hold equal elements, insert() adds a record
\* exactly when no record of the element is stored, and size() is the number
\* of distinct stored elements.
C17_UniqueElements ==
    [][/\ \A d1, d2 \in _data_set' : d1.element = d2.element => d1 = d2
       /\ size(_data_set') = Cardinality({d.element : d \in _data_set'})
       /\ ret'.op = "insert" =>
            size(_data_set') =
                IF \E d \in _data_set : d.element = ret'.element
                THEN size(_data_set) ELSE size(_data_set) + 1]_vars

\* insert() of a stored element with another weight was refused while the
\* container held two elements
C17_Witness ==
    /\ ret.op = "insert"
    /\ ret.value = <<FALSE>>
    /\ assigned[ret.element] # Some(ret.weight)
    /\ size(_data_set) = 2

\* C18: update() rebuilds the cached distribution over [1, totalWeight()], so
\* a draw that follows an update() samples a value of [1, totalWeight()];
\* insert, erase, modify and clear leave the cached distribution as it was.
C18_UpdateBoundsDraw ==
    [][/\ (ret'.op = "update" /\ _total_weight # U32(0)) =>
            _dis' = <<U32(1), _total_weight>>
       /\ (ret.op = "update" /\ ret'.op = "draw") =>
            /\ Leq32(U32(1), ret'.random)
            /\ Leq32(ret'.random, _total_weight)
       /\ ret'.op \in {"insert", "erase", "modify", "clear"} =>
            _dis' = _dis]_vars

\* C19: with weights small enough that no addition overflows, the weight
\* erase() or modify() subtracts for a stored element is at most the current
\* _total_weight, so the unsigned subtraction never wraps below zero.
C19_NoUnderflow ==
    [][(/\ ret'.op \in {"erase", "modify"}
        /\ contains(_data_set, ret'.element)) =>
         Leq32(weight(_data_set, ret'.element)[1], _total_weight)]_vars

\* C20: sample() never dereferences an empty optional: when _total_weight is
\* not 0, the draw it performs returns an element for every value the cached
\* distribution can yield.  (Stated for the distribution update() would
\* build now, the one a caller who refreshes before drawing has.)
C20_SampleDerefSafe ==
    Refreshed =>
        \A random \in DisValues(_dis, _data_set) : Scan(_data_set, random) # nullopt

====
